---- MODULE Spec2Model ----
(***************************************************************************)
(* The screenshot-processing pipeline of the Electron main process:        *)
(* ProcessingHelper (electron/ProcessingHelper.ts) and the IPC handlers    *)
(* that drive it (ipcHandlers.ts).                                         *)
(*                                                                         *)
(* Node runs the main process on one thread: a handler or an async         *)
(* function runs without interruption up to its next await on I/O, so one  *)
(* action is one such stretch of code.  processScreenshots is an async     *)
(* function; every call of it is an invocation of its own, and several     *)
(* invocations may be suspended at the same time.  The invocations are     *)
(* closures without a name, so the suspended ones form a bag.              *)
(***************************************************************************)
EXTENDS Integers, Sequences, FiniteSets, Bags, TLC

\* Invocations of processScreenshots that may be suspended at the same time.
MaxRuns == 2
\* Longest screenshot queue.
MaxQueue == 1

\* null / undefined, the empty payload and the empty message.  Payloads and
\* messages are sequences of text fragments.
NULL == <<>>
\* What a controller field holds: null, or an AbortController.
NoController == "null"
Controller == "AbortController"

Paths == {"imgA"}

\* Values the Analysis Client resolves with: a payload, or nothing.
ProblemInfos == {<<"statement">>, NULL}
SolutionsPayloads == {<<"code">>, NULL}
DebugPayloads == {<<"debug">>, NULL}

OutOfCredits == <<"API Key out of credits">>
InvalidKey == <<"Please close this window and re-enter a valid Open AI API key.">>
KeyNotFound == <<"OpenAI API key not found">>

\* Messages the Analysis Client rejects with (NULL: an error with no message).
ErrorMessages ==
    { <<"API Key out of credits", " for user X">>,
      InvalidKey,
      <<"Error: ", "OpenAI API key not found">>,
      <<"Network Error">>,
      NULL }

\* Errors image loading throws: [__CANCEL__, message].
LoadErrors ==
    { [cancel |-> FALSE, message |-> <<"ENOENT: no such file">>],
      [cancel |-> FALSE, message |-> NULL] }

VARIABLES
    mainWindow,                             \* deps.getMainWindow() is non-null
    view,                                   \* deps.getView()
    problemInfo,                            \* deps.getProblemInfo()
    hasDebugged,                            \* deps.setHasDebugged
    currentProcessingAbortController,
    currentExtraProcessingAbortController,
    screenshotQueue,
    extraScreenshotQueue,
    run,                                    \* the suspended invocations (a bag)
    finished,                               \* history: the invocation that returned in the last step
    sent,                                   \* history: the events the last step sent
    last                                    \* history: the function the last step ran in

vars == << mainWindow, view, problemInfo, hasDebugged,
           currentProcessingAbortController, currentExtraProcessingAbortController,
           screenshotQueue, extraScreenshotQueue, run, finished, sent, last >>

shared == << mainWindow, view, problemInfo, hasDebugged,
             currentProcessingAbortController, currentExtraProcessingAbortController,
             screenshotQueue, extraScreenshotQueue >>

\* ---------------------------------------------------------------- helpers

\* String.prototype.includes on a message; an undefined message (?.) is falsy.
includes(s, sub) ==
    \E i \in 0..(Len(s) - Len(sub)) : SubSeq(s, i + 1, i + Len(sub)) = sub

\* a || b on messages.
OrElse(a, b) == IF a = NULL THEN b ELSE a

\* axios.isCancel(error)
isCancel(error) == error.cancel

\* mainWindow.webContents.send(ev, payload), sent from function `by`.
Event(ev, by, payload) == [ev |-> ev, by |-> by, payload |-> payload]

Names(events) == [i \in DOMAIN events |-> events[i].ev]

\* An invocation.  pc is the await the invocation is suspended at; problemInfo
\* is the helper's local; own and aborted are its AbortController (whether the
\* field of its kind still holds it, and its signal); the rest is history.
\* The signal is handed to the helpers, which never read it and never pass it
\* to the Analysis Client.
NoRun ==
    [ pc |-> "idle", kind |-> "none", problemInfo |-> NULL,
      own |-> FALSE, aborted |-> FALSE,
      emitted |-> <<>>,                     \* the events it has sent
      called |-> {}, succeeded |-> {},      \* Analysis Client calls made / resolved with a payload
      failed |-> "none", error |-> NULL,    \* what rejected or threw, and the message reported
      message |-> NULL,                     \* the message the Analysis Client rejected with
      wrote |-> {},                         \* shared state it has assigned
      interrupted |-> FALSE,                \* a cancel found it suspended
      noInfoAtStart |-> FALSE,              \* a debug run that started with ProblemInfo null
      tracked |-> FALSE,                    \* the one invocation a progress property follows
      outcome |-> "none" ]

Suspended == BagToSet(run)

\* An invocation's record after it sent `events` and assigned `writes`.
Step(rec, events, writes) ==
    [rec EXCEPT !.emitted = @ \o events, !.wrote = @ \cup writes]

\* The bag after the controller field of `kind` was assigned: no invocation of
\* that kind has its controller in the field any more.
Disowned(bag, kind) ==
    BagOfAll(LAMBDA x : IF x.kind = kind THEN [x EXCEPT !.own = FALSE] ELSE x, bag)

\* ------------------------------------------------------------------- Init

Init ==
    /\ mainWindow \in BOOLEAN
    /\ view = "queue"
    /\ problemInfo = NULL
    /\ hasDebugged = FALSE
    /\ currentProcessingAbortController = NoController
    /\ currentExtraProcessingAbortController = NoController
    /\ screenshotQueue = <<>>
    /\ extraScreenshotQueue = <<>>
    /\ run = EmptyBag
    /\ finished = NoRun
    /\ sent = <<>>
    /\ last = "constructor"

\* ------------------------------------------------- ProcessingHelper pieces

KeyNotFoundText ==
    <<"OpenAI API key not found",
      " in environment variables. Please set the OPEN_AI_API_KEY environment variable.">>

\* Variant: the out-of-credits message falls through to the generic event.
MainFailureEvents_NoCreditsBranch(error) ==
    << Event("INITIAL_SOLUTION_ERROR", "processScreenshots", error) >>

\* Variant: every failed result is reported with one fixed text.
MainFailureEvents_FixedText(error) ==
    << Event("INITIAL_SOLUTION_ERROR", "processScreenshots",
             <<"Server error. Please try again.">>) >>

\* What processScreenshots sends for a failed result of processScreenshotsHelper.
MainFailureEvents(error) ==
    IF includes(error, OutOfCredits)
    THEN << Event("API_KEY_OUT_OF_CREDITS", "processScreenshots", NULL) >>
    ELSE IF includes(error, KeyNotFound)
    THEN << Event("INITIAL_SOLUTION_ERROR", "processScreenshots", KeyNotFoundText) >>
    ELSE << Event("INITIAL_SOLUTION_ERROR", "processScreenshots", error) >>

\* What the catch block of processScreenshots (main queue) sends for a thrown error.
MainCatchEvents(error) ==
    << Event("INITIAL_SOLUTION_ERROR", "processScreenshots", <<"[Error]">> \o error.message),
       Event("INITIAL_SOLUTION_ERROR", "processScreenshots",
             IF isCancel(error)
             THEN <<"Processing was canceled by the user.">>
             ELSE OrElse(error.message, <<"Server error. Please try again.">>)) >>

\* What the catch block of processScreenshots (extra queue) sends for a thrown error.
ExtraCatchEvents(error) ==
    << Event("DEBUG_ERROR", "processScreenshots",
             IF isCancel(error)
             THEN <<"Extra processing was canceled by the user.">>
             ELSE error.message) >>

\* What the catch block of generateSolutionsHelper / processExtraScreenshotsHelper
\* (function `by`) sends for an error message.
HelperCatchEvents(by, message) ==
    IF ~mainWindow THEN <<>>
    ELSE IF includes(message, OutOfCredits)
    THEN << Event("API_KEY_OUT_OF_CREDITS", by, NULL) >>
    ELSE IF includes(message, InvalidKey)
    THEN << Event("API_KEY_INVALID", by, NULL) >>
    ELSE <<>>

\* Variant: the finally blocks leave the controller in its field.
ControllerAfterRun_Kept == Controller

\* Variant: the failure path leaves the view alone.
ViewOnFailure_Kept == view

\* Variant: the failure path sets the view of the success path.
ViewOnFailure_Solutions == "solutions"

\* The view processScreenshots sets when the main-queue run failed / succeeded.
ViewOnFailure == "queue"
ViewOnSuccess == "solutions"

\* The value the finally blocks leave in the run's own controller field.
ControllerAfterRun == NoController

\* The invocation rec returns (through its finally block, which assigns the
\* controller field of its kind): events is what this last stretch sent.
Return(rec, new, events, outcome) ==
    /\ finished' = [Step(new, events, {}) EXCEPT !.pc = "done", !.outcome = outcome]
    /\ run' = Disowned(run (-) SetToBag({rec}), rec.kind)
    /\ sent' = events

\* processScreenshots, view = queue: the result of processScreenshotsHelper is
\* a failure with message `error`, after the helpers sent `events`.
MainFailed(rec, new, events, error) ==
    /\ view' = ViewOnFailure
    /\ currentProcessingAbortController' = ControllerAfterRun
    /\ UNCHANGED << mainWindow, hasDebugged, currentExtraProcessingAbortController,
                    screenshotQueue, extraScreenshotQueue >>
    /\ Return(rec, [Step(new, <<>>, {"view"}) EXCEPT !.error = error],
              events \o MainFailureEvents(error), "failed")

\* Variant: the finally block of the extra branch clears both controller fields.
ExtraFailed_ClearsBoth(rec, new, events, error) ==
    /\ currentExtraProcessingAbortController' = ControllerAfterRun
    /\ currentProcessingAbortController' = ControllerAfterRun
    /\ UNCHANGED << mainWindow, view, problemInfo, hasDebugged,
                    screenshotQueue, extraScreenshotQueue >>
    /\ Return(rec, [new EXCEPT !.error = error],
              events \o << Event("DEBUG_ERROR", "processScreenshots", error) >>, "failed")

\* processScreenshots, view = solutions: the result of
\* processExtraScreenshotsHelper is a failure with message `error`.
ExtraFailed(rec, new, events, error) ==
    /\ currentExtraProcessingAbortController' = ControllerAfterRun
    /\ UNCHANGED << mainWindow, view, problemInfo, hasDebugged,
                    currentProcessingAbortController,
                    screenshotQueue, extraScreenshotQueue >>
    /\ Return(rec, [new EXCEPT !.error = error],
              events \o << Event("DEBUG_ERROR", "processScreenshots", error) >>, "failed")

\* The invocation rec goes on to its next await as `new`.
Suspend(rec, new, events) ==
    /\ run' = (run (-) SetToBag({rec})) (+) SetToBag({new})
    /\ sent' = events
    /\ finished' = NoRun

\* ------------------------------------------------------ processScreenshots

\* Variant: the main-queue branch also checks the queue before its start event.
EmptyQueueEvents_CheckFirst(kind) ==
    << Event("NO_SCREENSHOTS", "processScreenshots", NULL) >>

\* What processScreenshots sends when the queue of its view is empty.
EmptyQueueEvents(kind) ==
    IF kind = "main"
    THEN << Event("INITIAL_START", "processScreenshots", NULL),
            Event("NO_SCREENSHOTS", "processScreenshots", NULL) >>
    ELSE << Event("NO_SCREENSHOTS", "processScreenshots", NULL) >>

\* What processScreenshots sends before loading the images of a non-empty queue.
StartEvents(kind) ==
    IF kind = "main"
    THEN << Event("INITIAL_START", "processScreenshots", NULL) >>
    ELSE << Event("DEBUG_START", "processScreenshots", NULL) >>

\* Variant: the controller is created before the queue is tested, so a run
\* over an empty queue leaves a controller behind.
processScreenshots_ControllerBeforeCheck ==
    LET kind == IF view = "queue" THEN "main" ELSE "extra"
        queue == IF kind = "main" THEN screenshotQueue ELSE extraScreenshotQueue
        rec == [NoRun EXCEPT !.kind = kind,
                             !.noInfoAtStart = (kind = "extra" /\ problemInfo = NULL)]
    IN  /\ last' = "processScreenshots"
        /\ IF ~mainWindow
           THEN /\ finished' = [NoRun EXCEPT !.pc = "done", !.outcome = "nowindow"]
                /\ sent' = <<>>
                /\ UNCHANGED << shared, run >>
           ELSE /\ IF kind = "main"
                   THEN /\ currentProcessingAbortController' = Controller
                        /\ UNCHANGED currentExtraProcessingAbortController
                   ELSE /\ currentExtraProcessingAbortController' = Controller
                        /\ UNCHANGED currentProcessingAbortController
                /\ UNCHANGED << mainWindow, view, problemInfo, hasDebugged,
                                screenshotQueue, extraScreenshotQueue >>
                /\ IF Len(queue) = 0
                   THEN /\ finished' = [Step(rec, EmptyQueueEvents(kind), {}) EXCEPT
                                           !.pc = "done", !.outcome = "empty"]
                        /\ sent' = EmptyQueueEvents(kind)
                        /\ run' = Disowned(run, kind)
                   ELSE /\ BagCardinality(run) < MaxRuns
                        /\ run' = Disowned(run, kind) (+)
                                  SetToBag({[Step(rec, StartEvents(kind), {}) EXCEPT
                                                !.pc = "loading", !.own = TRUE]})
                        /\ sent' = StartEvents(kind)
                        /\ finished' = NoRun

\* processScreenshots() up to its first await (or its return): view = queue
\* takes the main queue, any other view the extra queue.
processScreenshots ==
    LET kind == IF view = "queue" THEN "main" ELSE "extra"
        queue == IF kind = "main" THEN screenshotQueue ELSE extraScreenshotQueue
        rec == [NoRun EXCEPT !.kind = kind,
                             !.noInfoAtStart = (kind = "extra" /\ problemInfo = NULL)]
    IN  /\ last' = "processScreenshots"
        /\ IF ~mainWindow
           THEN /\ finished' = [NoRun EXCEPT !.pc = "done", !.outcome = "nowindow"]
                /\ sent' = <<>>
                /\ UNCHANGED << shared, run >>
           ELSE IF Len(queue) = 0
           THEN /\ finished' = [Step(rec, EmptyQueueEvents(kind), {}) EXCEPT
                                   !.pc = "done", !.outcome = "empty"]
                /\ sent' = EmptyQueueEvents(kind)
                /\ UNCHANGED << shared, run >>
           ELSE /\ BagCardinality(run) < MaxRuns
                /\ IF kind = "main"
                   THEN /\ currentProcessingAbortController' = Controller
                        /\ UNCHANGED currentExtraProcessingAbortController
                   ELSE /\ currentExtraProcessingAbortController' = Controller
                        /\ UNCHANGED currentProcessingAbortController
                /\ run' = Disowned(run, kind) (+)
                          SetToBag({[Step(rec, StartEvents(kind), {}) EXCEPT
                                        !.pc = "loading", !.own = TRUE]})
                /\ sent' = StartEvents(kind)
                /\ finished' = NoRun
                /\ UNCHANGED << mainWindow, view, problemInfo, hasDebugged,
                                screenshotQueue, extraScreenshotQueue >>

\* Main queue: Promise.all of the image loads resolves; processScreenshotsHelper
\* runs up to await extractProblemInfo.
MainLoaded(rec) ==
    /\ last' = "processScreenshots"
    /\ rec.pc = "loading" /\ rec.kind = "main"
    /\ Suspend(rec, [rec EXCEPT !.pc = "extract", !.called = @ \cup {"extract"}], <<>>)
    /\ UNCHANGED shared

\* Main queue: an image load throws; the catch and finally blocks run.
MainLoadFailed(rec, error) ==
    /\ last' = "processScreenshots"
    /\ rec.pc = "loading" /\ rec.kind = "main"
    /\ view' = ViewOnFailure
    /\ currentProcessingAbortController' = ControllerAfterRun
    /\ UNCHANGED << mainWindow, problemInfo, hasDebugged,
                    currentExtraProcessingAbortController,
                    screenshotQueue, extraScreenshotQueue >>
    /\ Return(rec, [Step(rec, <<>>, {"view"}) EXCEPT
                       !.failed = "load", !.error = error.message],
              MainCatchEvents(error), "failed")

\* extractProblemInfo resolves with info: it is stored and announced, and
\* generateSolutionsHelper runs up to await generateSolutionResponses, or
\* throws at once when there is no problem info.  (The window is the one
\* processScreenshots found, so the helper's "if (mainWindow)" is taken.)
ExtractResolved(rec, info) ==
    /\ last' = "processScreenshots"
    /\ rec.pc = "extract"
    /\ problemInfo' = info
    /\ LET events == << Event("PROBLEM_EXTRACTED", "processScreenshotsHelper", info) >>
           new == [Step(rec, <<>>, {"problemInfo"}) EXCEPT
                      !.problemInfo = info,
                      !.succeeded = IF info # NULL THEN @ \cup {"extract"} ELSE @]
       IN  IF info = NULL
           THEN LET message == <<"No problem info available">>
                IN  MainFailed(rec, [new EXCEPT !.failed = "generate-precondition"],
                               events \o HelperCatchEvents("generateSolutionsHelper", message),
                               OrElse(message, <<"Failed to generate solutions">>))
           ELSE /\ Suspend(rec, [Step(new, events, {}) EXCEPT
                                    !.pc = "generate", !.called = @ \cup {"generate"}],
                           events)
                /\ UNCHANGED << mainWindow, view, hasDebugged,
                                currentProcessingAbortController,
                                currentExtraProcessingAbortController,
                                screenshotQueue, extraScreenshotQueue >>

\* Variant: a rejected extractProblemInfo is ignored and generateSolutionsHelper
\* is called all the same.
ExtractRejected_CallsGenerate(rec, message) ==
    /\ last' = "processScreenshots"
    /\ rec.pc = "extract"
    /\ Suspend(rec, [rec EXCEPT !.pc = "generate", !.failed = "extract",
                                !.message = message,
                                !.called = @ \cup {"generate"}], <<>>)
    /\ UNCHANGED shared

\* extractProblemInfo rejects with an error whose message is `message`.
ExtractRejected(rec, message) ==
    /\ last' = "processScreenshots"
    /\ rec.pc = "extract"
    /\ problemInfo' = problemInfo
    /\ MainFailed(rec, [rec EXCEPT !.failed = "extract", !.message = message],
                  <<>>, message)

\* generateSolutionResponses resolves with solutions.
GenerateResolved(rec, solutions) ==
    /\ last' = "processScreenshots"
    /\ rec.pc = "generate"
    /\ problemInfo' = problemInfo
    /\ IF solutions = NULL
       THEN LET message == <<"No solutions received">>
            IN  MainFailed(rec, [rec EXCEPT !.failed = "generate-empty"],
                           HelperCatchEvents("generateSolutionsHelper", message),
                           OrElse(message, <<"Failed to generate solutions">>))
       ELSE /\ view' = ViewOnSuccess
            /\ currentProcessingAbortController' = ControllerAfterRun
            /\ UNCHANGED << mainWindow, hasDebugged,
                            currentExtraProcessingAbortController,
                            screenshotQueue, extraScreenshotQueue >>
            /\ Return(rec, [Step(rec, <<>>, {"view"}) EXCEPT
                               !.succeeded = @ \cup {"generate"}],
                      << Event("SOLUTION_SUCCESS", "processScreenshotsHelper", solutions),
                         Event("SOLUTION_SUCCESS", "processScreenshots", rec.problemInfo) >>,
                      "success")

\* generateSolutionResponses rejects with an error whose message is `message`.
GenerateRejected(rec, message) ==
    /\ last' = "processScreenshots"
    /\ rec.pc = "generate"
    /\ problemInfo' = problemInfo
    /\ MainFailed(rec, [rec EXCEPT !.failed = "generate", !.message = message],
                  HelperCatchEvents("generateSolutionsHelper", message),
                  OrElse(message, <<"Failed to generate solutions">>))

\* Extra queue: the image loads resolve; processExtraScreenshotsHelper reads
\* the problem info and runs up to await debugSolutionResponses, or throws at
\* once when there is none.
ExtraLoaded(rec) ==
    /\ last' = "processScreenshots"
    /\ rec.pc = "loading" /\ rec.kind = "extra"
    /\ IF problemInfo = NULL
       THEN LET message == <<"No problem info available">>
            IN  ExtraFailed(rec, [rec EXCEPT !.failed = "debug-precondition"],
                            HelperCatchEvents("processExtraScreenshotsHelper", message),
                            message)
       ELSE /\ Suspend(rec, [rec EXCEPT !.pc = "debug", !.problemInfo = problemInfo,
                                        !.called = @ \cup {"debug"}], <<>>)
            /\ UNCHANGED shared

\* Extra queue: an image load throws; the catch and finally blocks run.
ExtraLoadFailed(rec, error) ==
    /\ last' = "processScreenshots"
    /\ rec.pc = "loading" /\ rec.kind = "extra"
    /\ currentExtraProcessingAbortController' = ControllerAfterRun
    /\ UNCHANGED << mainWindow, view, problemInfo, hasDebugged,
                    currentProcessingAbortController,
                    screenshotQueue, extraScreenshotQueue >>
    /\ Return(rec, [rec EXCEPT !.failed = "load", !.error = error.message],
              ExtraCatchEvents(error), "failed")

\* debugSolutionResponses resolves with debugSolutions.
DebugResolved(rec, debugSolutions) ==
    /\ last' = "processScreenshots"
    /\ rec.pc = "debug"
    /\ IF debugSolutions = NULL
       THEN LET message == <<"No debug solutions received">>
            IN  ExtraFailed(rec, [rec EXCEPT !.failed = "debug-empty"],
                            HelperCatchEvents("processExtraScreenshotsHelper", message),
                            message)
       ELSE /\ hasDebugged' = TRUE
            /\ currentExtraProcessingAbortController' = ControllerAfterRun
            /\ UNCHANGED << mainWindow, view, problemInfo,
                            currentProcessingAbortController,
                            screenshotQueue, extraScreenshotQueue >>
            /\ Return(rec, [Step(rec, <<>>, {"hasDebugged"}) EXCEPT
                               !.succeeded = @ \cup {"debug"}],
                      << Event("DEBUG_SUCCESS", "processScreenshots", debugSolutions) >>,
                      "success")

\* debugSolutionResponses rejects with an error whose message is `message`.
DebugRejected(rec, message) ==
    /\ last' = "processScreenshots"
    /\ rec.pc = "debug"
    /\ ExtraFailed(rec, [rec EXCEPT !.failed = "debug", !.message = message],
                   HelperCatchEvents("processExtraScreenshotsHelper", message),
                   message)

\* --------------------------------------------------- cancelOngoingRequests

\* Variant: cancelOngoingRequests notifies the window whether or not it found
\* a controller.
CancelEffect_AlwaysNotifies ==
    LET main == currentProcessingAbortController
        extra == currentExtraProcessingAbortController
    IN  [ main |-> NoController,
          extra |-> NoController,
          hasDebugged |-> FALSE,
          problemInfo |-> NULL,
          run |-> BagOfAll(LAMBDA x : [x EXCEPT !.aborted = @ \/ x.own,
                                                !.own = FALSE,
                                                !.interrupted = TRUE], run),
          events |-> IF mainWindow
                     THEN << Event("NO_SCREENSHOTS", "cancelOngoingRequests", NULL) >>
                     ELSE <<>> ]

\* Variant: cancelOngoingRequests aborts the controllers but leaves them in
\* their fields.
CancelEffect_KeepsHandles ==
    LET main == currentProcessingAbortController
        extra == currentExtraProcessingAbortController
        wasCancelled == main # NoController \/ extra # NoController
    IN  [ main |-> main,
          extra |-> extra,
          hasDebugged |-> FALSE,
          problemInfo |-> NULL,
          run |-> BagOfAll(LAMBDA x : [x EXCEPT !.aborted = @ \/ x.own,
                                                !.interrupted = TRUE], run),
          events |-> IF wasCancelled /\ mainWindow
                     THEN << Event("NO_SCREENSHOTS", "cancelOngoingRequests", NULL) >>
                     ELSE <<>> ]

\* Variant: cancelOngoingRequests without setProblemInfo(null).
CancelEffect_KeepsProblemInfo ==
    LET main == currentProcessingAbortController
        extra == currentExtraProcessingAbortController
        wasCancelled == main # NoController \/ extra # NoController
    IN  [ main |-> NoController,
          extra |-> NoController,
          hasDebugged |-> FALSE,
          problemInfo |-> problemInfo,
          run |-> BagOfAll(LAMBDA x : [x EXCEPT !.aborted = @ \/ x.own,
                                                !.own = FALSE,
                                                !.interrupted = TRUE], run),
          events |-> IF wasCancelled /\ mainWindow
                     THEN << Event("NO_SCREENSHOTS", "cancelOngoingRequests", NULL) >>
                     ELSE <<>> ]

\* cancelOngoingRequests(), as the values it leaves and the events it sends.
\* abort() sets the signal of the controller a field holds; the invocations
\* themselves go on (they never read the signal).
CancelEffect ==
    LET main == currentProcessingAbortController
        extra == currentExtraProcessingAbortController
        wasCancelled == main # NoController \/ extra # NoController
    IN  [ main |-> IF main # NoController THEN NoController ELSE main,
          extra |-> IF extra # NoController THEN NoController ELSE extra,
          hasDebugged |-> FALSE,
          problemInfo |-> NULL,
          run |-> BagOfAll(LAMBDA x : [x EXCEPT !.aborted = @ \/ x.own,
                                                !.own = FALSE,
                                                !.interrupted = TRUE], run),
          events |-> IF wasCancelled /\ mainWindow
                     THEN << Event("NO_SCREENSHOTS", "cancelOngoingRequests", NULL) >>
                     ELSE <<>> ]

cancelOngoingRequests ==
    /\ last' = "cancelOngoingRequests"
    /\ currentProcessingAbortController' = CancelEffect.main
    /\ currentExtraProcessingAbortController' = CancelEffect.extra
    /\ hasDebugged' = CancelEffect.hasDebugged
    /\ problemInfo' = CancelEffect.problemInfo
    /\ run' = CancelEffect.run
    /\ sent' = CancelEffect.events
    /\ finished' = NoRun
    /\ UNCHANGED << mainWindow, view, screenshotQueue, extraScreenshotQueue >>

\* ------------------------------------------------------------ IPC handlers

\* deps.clearQueues()
ClearedQueue == <<>>

\* Variant: the two reset events in the other order.
ResetEvents_Swapped ==
    IF mainWindow
    THEN << Event("reset", "trigger-reset", NULL),
            Event("reset-view", "trigger-reset", NULL) >>
    ELSE <<>>

\* What the trigger-reset handler sends after cancelling.
ResetEvents ==
    IF mainWindow
    THEN << Event("reset-view", "trigger-reset", NULL),
            Event("reset", "trigger-reset", NULL) >>
    ELSE <<>>

\* Variant: trigger-reset without deps.setView("queue").
ViewOnReset_Kept == view

\* The view the trigger-reset handler sets.
ViewOnReset == "queue"

\* ipcMain.handle("trigger-reset")
TriggerReset ==
    /\ last' = "trigger-reset"
    /\ currentProcessingAbortController' = CancelEffect.main
    /\ currentExtraProcessingAbortController' = CancelEffect.extra
    /\ hasDebugged' = CancelEffect.hasDebugged
    /\ problemInfo' = CancelEffect.problemInfo
    /\ run' = CancelEffect.run
    /\ screenshotQueue' = ClearedQueue
    /\ extraScreenshotQueue' = ClearedQueue
    /\ view' = ViewOnReset
    /\ sent' = CancelEffect.events \o ResetEvents
    /\ finished' = NoRun
    /\ UNCHANGED mainWindow

\* ipcMain.handle("trigger-screenshot"): deps.takeScreenshot() adds the new
\* screenshot to the queue of the current view.
TriggerScreenshot(path) ==
    /\ last' = "trigger-screenshot"
    /\ mainWindow
    /\ IF view = "queue"
       THEN /\ Len(screenshotQueue) < MaxQueue
            /\ screenshotQueue' = Append(screenshotQueue, path)
            /\ UNCHANGED extraScreenshotQueue
       ELSE /\ Len(extraScreenshotQueue) < MaxQueue
            /\ extraScreenshotQueue' = Append(extraScreenshotQueue, path)
            /\ UNCHANGED screenshotQueue
    /\ sent' = << Event("screenshot-taken", "trigger-screenshot", <<path>>) >>
    /\ finished' = NoRun
    /\ UNCHANGED << mainWindow, view, problemInfo, hasDebugged,
                    currentProcessingAbortController,
                    currentExtraProcessingAbortController, run >>

\* reset-queues: deps.clearQueues() and nothing else.
ResetQueues ==
    /\ last' = "reset-queues"
    /\ screenshotQueue' = ClearedQueue
    /\ extraScreenshotQueue' = ClearedQueue
    /\ sent' = <<>>
    /\ finished' = NoRun
    /\ UNCHANGED << mainWindow, view, problemInfo, hasDebugged,
                    currentProcessingAbortController,
                    currentExtraProcessingAbortController, run >>

\* delete-screenshot(path): the path leaves whichever queue holds it.
DeleteScreenshot(path) ==
    /\ last' = "delete-screenshot"
    /\ \E i \in DOMAIN screenshotQueue \cup DOMAIN extraScreenshotQueue :
          \/ i \in DOMAIN screenshotQueue /\ screenshotQueue[i] = path
          \/ i \in DOMAIN extraScreenshotQueue /\ extraScreenshotQueue[i] = path
    /\ screenshotQueue' = SelectSeq(screenshotQueue, LAMBDA p : p # path)
    /\ extraScreenshotQueue' = SelectSeq(extraScreenshotQueue, LAMBDA p : p # path)
    /\ sent' = <<>>
    /\ finished' = NoRun
    /\ UNCHANGED << mainWindow, view, problemInfo, hasDebugged,
                    currentProcessingAbortController,
                    currentExtraProcessingAbortController, run >>

\* ------------------------------------------------------------------- Next

Next ==
    \/ processScreenshots
    \/ \E rec \in Suspended : MainLoaded(rec)
    \/ \E rec \in Suspended : \E error \in LoadErrors : MainLoadFailed(rec, error)
    \/ \E rec \in Suspended : \E info \in ProblemInfos : ExtractResolved(rec, info)
    \/ \E rec \in Suspended : \E message \in ErrorMessages : ExtractRejected(rec, message)
    \/ \E rec \in Suspended : \E solutions \in SolutionsPayloads : GenerateResolved(rec, solutions)
    \/ \E rec \in Suspended : \E message \in ErrorMessages : GenerateRejected(rec, message)
    \/ \E rec \in Suspended : ExtraLoaded(rec)
    \/ \E rec \in Suspended : \E error \in LoadErrors : ExtraLoadFailed(rec, error)
    \/ \E rec \in Suspended : \E debugSolutions \in DebugPayloads : DebugResolved(rec, debugSolutions)
    \/ \E rec \in Suspended : \E message \in ErrorMessages : DebugRejected(rec, message)
    \/ cancelOngoingRequests
    \/ TriggerReset
    \/ \E path \in Paths : TriggerScreenshot(path)
    \/ ResetQueues
    \/ \E path \in Paths : DeleteScreenshot(path)

Spec == Init /\ [][Next]_vars

TypeOK ==
    /\ mainWindow \in BOOLEAN
    /\ view \in {"queue", "solutions"}
    /\ problemInfo \in ProblemInfos
    /\ hasDebugged \in BOOLEAN
    /\ currentProcessingAbortController \in {NoController, Controller}
    /\ currentExtraProcessingAbortController \in {NoController, Controller}
    /\ Len(screenshotQueue) <= MaxQueue
    /\ Len(extraScreenshotQueue) <= MaxQueue
    /\ BagCardinality(run) <= MaxRuns
    /\ \A rec \in Suspended :
          /\ rec.pc \in {"loading", "extract", "generate", "debug"}
          /\ rec.kind \in {"main", "extra"}
    /\ (currentProcessingAbortController # NoController)
          <=> \E rec \in Suspended : rec.kind = "main" /\ rec.own
    /\ (currentExtraProcessingAbortController # NoController)
          <=> \E rec \in Suspended : rec.kind = "extra" /\ rec.own

\* The IPC handlers alone: cancelOngoingRequests runs only inside trigger-reset.
NextIpc ==
    \/ processScreenshots
    \/ \E rec \in Suspended : MainLoaded(rec)
    \/ \E rec \in Suspended : \E error \in LoadErrors : MainLoadFailed(rec, error)
    \/ \E rec \in Suspended : \E info \in ProblemInfos : ExtractResolved(rec, info)
    \/ \E rec \in Suspended : \E message \in ErrorMessages : ExtractRejected(rec, message)
    \/ \E rec \in Suspended : \E solutions \in SolutionsPayloads : GenerateResolved(rec, solutions)
    \/ \E rec \in Suspended : \E message \in ErrorMessages : GenerateRejected(rec, message)
    \/ \E rec \in Suspended : ExtraLoaded(rec)
    \/ \E rec \in Suspended : \E error \in LoadErrors : ExtraLoadFailed(rec, error)
    \/ \E rec \in Suspended : \E debugSolutions \in DebugPayloads : DebugResolved(rec, debugSolutions)
    \/ \E rec \in Suspended : \E message \in ErrorMessages : DebugRejected(rec, message)
    \/ TriggerReset
    \/ \E path \in Paths : TriggerScreenshot(path)
    \/ ResetQueues
    \/ \E path \in Paths : DeleteScreenshot(path)

SpecIpc == Init /\ [][NextIpc]_vars

\* ----------------------------------------------------------------- claims

\* The invocation that returned in the last step.
Returned == finished.pc = "done"
EmittedNames == Names(finished.emitted)

\* C1: a main-queue run in which extract-problem-info and generate-solutions
\* both succeed, and which no cancel or reset found suspended, sends exactly
\* INITIAL_START, PROBLEM_EXTRACTED, SOLUTION_SUCCESS and leaves View = solutions.
C1_SuccessfulRunEvents ==
    ( /\ Returned /\ finished.kind = "main"
      /\ {"extract", "generate"} \subseteq finished.succeeded
      /\ ~finished.interrupted )
    => /\ EmittedNames = << "INITIAL_START", "PROBLEM_EXTRACTED", "SOLUTION_SUCCESS" >>
       /\ view = "solutions"

\* C2: a main-queue run whose extract-problem-info fails with a message that
\* contains "API Key out of credits" sends exactly INITIAL_START,
\* API_KEY_OUT_OF_CREDITS and leaves View = queue.
C2_ExtractOutOfCredits ==
    ( /\ Returned /\ finished.kind = "main"
      /\ finished.failed = "extract"
      /\ includes(finished.error, OutOfCredits) )
    => /\ EmittedNames = << "INITIAL_START", "API_KEY_OUT_OF_CREDITS" >>
       /\ view = "queue"

C2_Witness ==
    /\ Returned /\ finished.kind = "main"
    /\ finished.failed = "extract"
    /\ finished.error = << "API Key out of credits", " for user X" >>

\* The view a run of this kind started in.
StartView(kind) == IF kind = "main" THEN "queue" ELSE "solutions"

C4_CancelClears ==
    (last = "cancelOngoingRequests")
    => /\ problemInfo = NULL
       /\ hasDebugged = FALSE
       /\ currentProcessingAbortController = NoController
       /\ currentExtraProcessingAbortController = NoController

\* cancelOngoingRequests has just found a controller to abort, while a main
\* run that had stored its ProblemInfo and a debug run are suspended.
C4_Witness ==
    /\ last = "cancelOngoingRequests"
    /\ Names(sent) = << "NO_SCREENSHOTS" >>
    /\ view = "solutions"
    /\ \E rec \in Suspended : rec.pc = "generate" /\ rec.interrupted
    /\ \E rec \in Suspended : rec.kind = "extra" /\ rec.aborted

\* A step of the suspended invocation rec: what it awaited resolves or rejects.
RunStep(rec) ==
    \/ MainLoaded(rec)
    \/ \E error \in LoadErrors : MainLoadFailed(rec, error)
    \/ \E info \in ProblemInfos : ExtractResolved(rec, info)
    \/ \E message \in ErrorMessages : ExtractRejected(rec, message)
    \/ \E solutions \in SolutionsPayloads : GenerateResolved(rec, solutions)
    \/ \E message \in ErrorMessages : GenerateRejected(rec, message)
    \/ ExtraLoaded(rec)
    \/ \E error \in LoadErrors : ExtraLoadFailed(rec, error)
    \/ \E debugSolutions \in DebugPayloads : DebugResolved(rec, debugSolutions)
    \/ \E message \in ErrorMessages : DebugRejected(rec, message)

\* C5: a run that a cancel found suspended (in image loading or in an Analysis
\* Client call) changes no shared state afterwards: none of its later steps
\* changes ProblemInfo, View or hasDebugged.
C5_CancelledRunWritesNothing ==
    [][ \A rec \in Suspended :
            (rec.interrupted /\ RunStep(rec))
            => UNCHANGED << problemInfo, view, hasDebugged >> ]_vars

\* C6: View = solutions implies ProblemInfo is non-null.
C6_SolutionsViewHasProblemInfo ==
    view = "solutions" => problemInfo # NULL

\* C7: View becomes solutions only in the step in which a main-queue run
\* returns after extract and generate both succeeded, and every trigger-reset
\* leaves View = queue (as the constructor does); so View = solutions only if
\* such a run has returned since the last trigger-reset.
C7_SolutionsOnlyAfterSuccess ==
    [][ /\ (view' = "solutions" /\ view # "solutions")
           => /\ finished'.pc = "done" /\ finished'.kind = "main"
              /\ finished'.outcome = "success"
              /\ {"extract", "generate"} \subseteq finished'.succeeded
        /\ (last' = "trigger-reset") => view' = "queue" ]_vars

C7_Witness ==
    /\ view = "solutions"
    /\ Returned /\ finished.kind = "main" /\ finished.outcome = "success"

\* C8: the events of a trigger-reset with a live window are reset-view and
\* then reset, next to each other: reset-view is always directly followed by
\* reset, and reset directly preceded by reset-view, in what one step sends
\* (a handler runs to its end before any other code sends).
C8_ResetEventsAdjacent ==
    /\ \A i \in DOMAIN sent :
          /\ sent[i].ev = "reset-view"
                => (i + 1 \in DOMAIN sent /\ sent[i + 1].ev = "reset")
          /\ sent[i].ev = "reset"
                => (i - 1 \in DOMAIN sent /\ sent[i - 1].ev = "reset-view")
    /\ (last = "trigger-reset" /\ mainWindow)
          => \E i \in DOMAIN sent : sent[i].ev = "reset-view"

\* A trigger-reset that found runs suspended and a controller to abort.
C8_Witness ==
    /\ last = "trigger-reset"
    /\ Names(sent) = << "NO_SCREENSHOTS", "reset-view", "reset" >>
    /\ BagCardinality(run) = MaxRuns

\* C9: right after trigger-reset returns, both queues are empty, View = queue,
\* ProblemInfo is null, hasDebugged is false and both controller fields are null.
C9_ResetState ==
    (last = "trigger-reset")
    => /\ screenshotQueue = <<>> /\ extraScreenshotQueue = <<>>
       /\ view = "queue"
       /\ problemInfo = NULL
       /\ hasDebugged = FALSE
       /\ currentProcessingAbortController = NoController
       /\ currentExtraProcessingAbortController = NoController

\* A trigger-reset that aborted a debug run: before it, View was solutions,
\* the extra queue was not empty and the extra controller field was set.
C9_Witness ==
    /\ last = "trigger-reset"
    /\ \E rec \in Suspended : rec.kind = "extra" /\ rec.aborted
    /\ Names(sent) = << "NO_SCREENSHOTS", "reset-view", "reset" >>

\* C10: a debug run started with a non-empty extra queue while ProblemInfo is
\* null never calls generate-debug-solutions, sends DEBUG_ERROR, does not
\* assign hasDebugged, and leaves the extra controller field null.
C10_DebugWithoutInfoFailsLocally ==
    ( /\ Returned /\ finished.kind = "extra"
      /\ finished.outcome # "empty"
      /\ finished.noInfoAtStart )
    => /\ "debug" \notin finished.called
       /\ \E i \in DOMAIN finished.emitted : finished.emitted[i].ev = "DEBUG_ERROR"
       /\ "hasDebugged" \notin finished.wrote
       /\ currentExtraProcessingAbortController = NoController

\* How often the invocation that returned in the last step sent the event ev.
Occurrences(ev) ==
    Cardinality({i \in DOMAIN finished.emitted : finished.emitted[i].ev = ev})

\* The invocation that returned in the last step ended because an Analysis
\* Client call (extract, generate or debug) rejected.
ClientCallFailed == Returned /\ finished.failed \in {"extract", "generate", "debug"}

\* C11: a run of either kind in which an Analysis Client call fails with a
\* message containing "API Key out of credits" sends API_KEY_OUT_OF_CREDITS
\* exactly once, whichever call failed.
C11_OutOfCreditsOnce ==
    (ClientCallFailed /\ includes(finished.error, OutOfCredits))
    => Occurrences("API_KEY_OUT_OF_CREDITS") = 1

\* C12: a run of either kind in which an Analysis Client call fails with a
\* message containing the invalid-key sentence sends API_KEY_INVALID exactly
\* once, whichever call failed.
C12_InvalidKeyOnce ==
    (ClientCallFailed /\ includes(finished.error, InvalidKey))
    => Occurrences("API_KEY_INVALID") = 1

\* The generic failure event of a run of this kind.
GenericError(kind) == IF kind = "main" THEN "INITIAL_SOLUTION_ERROR" ELSE "DEBUG_ERROR"

\* An Analysis Client call rejected with a message that holds neither sentinel.
OtherClientFailure ==
    /\ ClientCallFailed
    /\ ~includes(finished.message, OutOfCredits)
    /\ ~includes(finished.message, InvalidKey)

\* C13 as stated: a run in which an Analysis Client call fails with a message
\* that holds neither sentinel sends the generic failure event of its kind
\* with exactly that message as payload.
C13_GenericEventCarriesRawMessage ==
    OtherClientFailure
    => \E i \in DOMAIN finished.emitted :
          /\ finished.emitted[i].ev = GenericError(finished.kind)
          /\ finished.emitted[i].payload = finished.message

\* C13 amended: such a run sends the generic failure event of its kind exactly
\* once; the payload is the raw message, except that a main-queue run whose
\* message contains "OpenAI API key not found" sends a fixed explanatory text
\* and a generate-solutions error without a message is reported as
\* "Failed to generate solutions".
C13_GenericEventPayload ==
    OtherClientFailure
    => /\ Occurrences(GenericError(finished.kind)) = 1
       /\ \E i \in DOMAIN finished.emitted :
             /\ finished.emitted[i].ev = GenericError(finished.kind)
             /\ finished.emitted[i].payload =
                   IF finished.kind = "main" /\ includes(finished.message, KeyNotFound)
                   THEN KeyNotFoundText
                   ELSE IF finished.failed = "generate" /\ finished.message = NULL
                   THEN <<"Failed to generate solutions">>
                   ELSE finished.message

\* A main-queue run whose generate-solutions call was rejected with a
\* key-not-found message has returned.
C13_Witness ==
    /\ Returned /\ finished.kind = "main" /\ finished.failed = "generate"
    /\ finished.message = <<"Error: ", "OpenAI API key not found">>
    /\ Occurrences("INITIAL_SOLUTION_ERROR") = 1

\* The events that end a run.
TerminalEvents ==
    { "NO_SCREENSHOTS", "SOLUTION_SUCCESS", "INITIAL_SOLUTION_ERROR",
      "API_KEY_OUT_OF_CREDITS", "API_KEY_INVALID", "DEBUG_SUCCESS", "DEBUG_ERROR" }

\* C14: every run that found a window, on every path, sends exactly one
\* terminal event, and that event is the last one it sends.
C14_OneTerminalEvent ==
    (Returned /\ finished.outcome # "nowindow")
    => /\ Cardinality({i \in DOMAIN finished.emitted :
                          finished.emitted[i].ev \in TerminalEvents}) = 1
       /\ finished.emitted # <<>>
       /\ finished.emitted[Len(finished.emitted)].ev \in TerminalEvents

\* C15 as stated: whenever a run of either kind ends on a failure path,
\* View = queue in the state in which it returns.
C15_FailureRestoresQueueView ==
    (Returned /\ finished.outcome = "failed") => view = "queue"

\* C15 amended: a main-queue run that ends on a failure path leaves
\* View = queue; a debug run that ends on a failure path leaves View as it
\* was before its last step.
C15_FailureView ==
    [][ (finished'.pc = "done" /\ finished'.outcome = "failed")
        => IF finished'.kind = "main" THEN view' = "queue" ELSE view' = view ]_vars

\* A debug run has failed and the solutions view is still shown.
C15_Witness ==
    /\ Returned /\ finished.kind = "extra" /\ finished.outcome = "failed"
    /\ finished.failed = "debug"
    /\ view = "solutions"

\* C16: a run whose controller a cancel aborted while the run was suspended
\* sends no event of its own afterwards: none of its later steps sends
\* anything.
C16_CancelledRunEmitsNothing ==
    [][ \A rec \in Suspended :
            (rec.aborted /\ RunStep(rec)) => sent' = <<>> ]_vars

\* The step is a call of cancelOngoingRequests (on its own or from trigger-reset).
CancelCalled == last' \in {"cancelOngoingRequests", "trigger-reset"}

\* cancelOngoingRequests sent its NO_SCREENSHOTS in the last step.
CancelNotified ==
    \E i \in DOMAIN sent :
        sent[i].ev = "NO_SCREENSHOTS" /\ sent[i].by = "cancelOngoingRequests"

C18_CancelIdempotent ==
    /\ [](last = "cancelOngoingRequests"
          => /\ CancelEffect.problemInfo = problemInfo
             /\ CancelEffect.hasDebugged = hasDebugged
             /\ CancelEffect.main = currentProcessingAbortController
             /\ CancelEffect.extra = currentExtraProcessingAbortController
             /\ CancelEffect.events = <<>>)
    /\ [][ (last = "cancelOngoingRequests" /\ last' = "cancelOngoingRequests")
           => /\ UNCHANGED << problemInfo, hasDebugged, view,
                              currentProcessingAbortController,
                              currentExtraProcessingAbortController >>
              /\ sent' = <<>> ]_vars

\* cancelOngoingRequests has returned without finding a controller, while an
\* invocation that an earlier call aborted is still suspended.
C18_Witness ==
    /\ last = "cancelOngoingRequests"
    /\ sent = <<>>
    /\ \E rec \in Suspended : rec.aborted
    /\ problemInfo = NULL /\ hasDebugged = FALSE

\* History only: one invocation that has just created its controller is
\* singled out to be followed to its return (invocations have no name, so
\* progress is stated for a marked one; any invocation can be the marked one).
Track ==
    /\ \A rec \in Suspended : ~rec.tracked
    /\ \E rec \in Suspended :
          /\ rec.pc = "loading"
          /\ run' = (run (-) SetToBag({rec})) (+) SetToBag({[rec EXCEPT !.tracked = TRUE]})
    /\ UNCHANGED << shared, finished, sent, last >>

NextLive == Next \/ Track

\* Every image load and every Analysis Client call eventually resolves or
\* rejects: the await the followed invocation is suspended at does not stay
\* pending for ever.
SpecLive ==
    /\ Init /\ [][NextLive]_vars
    /\ WF_vars(\E rec \in Suspended : rec.tracked /\ RunStep(rec))

\* The controller field of a kind of run.
ControllerOf(kind) ==
    IF kind = "main" THEN currentProcessingAbortController
                     ELSE currentExtraProcessingAbortController

\* C19: if every image load and every Analysis Client call eventually
\* returns or fails, every run that created a controller eventually returns,
\* and in the state in which it returns the controller field of its kind is
\* null, on the success path, on every failure path and after a cancel.
C19_RunEndsWithHandleNull ==
    /\ []((Returned /\ finished.outcome \in {"success", "failed"})
            => ControllerOf(finished.kind) = NoController)
    /\ (\E rec \in Suspended : rec.tracked)
          ~> (Returned /\ finished.tracked
                       /\ ControllerOf(finished.kind) = NoController)

\* The followed run was cancelled while suspended and has now returned.
C19_Witness ==
    /\ Returned /\ finished.tracked /\ finished.aborted
    /\ ControllerOf(finished.kind) = NoController

\* The invocations there are: the suspended ones and the one that has just
\* returned.
Invocations == Suspended \cup {finished}

\* C20: in a main-queue run generate-solutions is called only after
\* extract-problem-info succeeded, its result was stored as ProblemInfo and
\* PROBLEM_EXTRACTED was sent with it; a run whose extract-problem-info failed
\* never calls generate-solutions and does not assign ProblemInfo.  First
\* conjunct: the history of every invocation; second: the step that announces
\* the result and goes on to call generate-solutions has stored that result
\* in ProblemInfo; third: the step in which extract-problem-info fails leaves
\* ProblemInfo alone.
C20_GenerateOnlyAfterExtract ==
    /\ [](\A rec \in Invocations :
            /\ "generate" \in rec.called
                  => /\ rec.kind = "main"
                     /\ "extract" \in rec.succeeded
                     /\ "problemInfo" \in rec.wrote
                     /\ rec.problemInfo # NULL
                     /\ \E i \in DOMAIN rec.emitted :
                           /\ rec.emitted[i].ev = "PROBLEM_EXTRACTED"
                           /\ rec.emitted[i].payload = rec.problemInfo
            /\ rec.failed = "extract"
                  => "generate" \notin rec.called /\ "problemInfo" \notin rec.wrote)
    /\ [][ (finished' = NoRun /\ Names(sent') = << "PROBLEM_EXTRACTED" >>)
           => /\ problemInfo' = sent'[1].payload /\ problemInfo' # NULL
              /\ \E rec \in BagToSet(run') :
                    rec.pc = "generate" /\ rec.problemInfo = problemInfo' ]_vars
    /\ [][ (finished'.pc = "done" /\ finished'.failed = "extract")
           => problemInfo' = problemInfo ]_vars

\* A main-queue run whose extract-problem-info failed has returned without
\* calling generate-solutions, and the ProblemInfo another run stored is
\* still there.
C20_Witness ==
    /\ Returned /\ finished.kind = "main" /\ finished.failed = "extract"
    /\ finished.called = {"extract"}
    /\ problemInfo # NULL
    /\ \E rec \in Suspended : rec.pc = "generate"

\* C21: a run that finds its queue empty changes no pipeline state: View,
\* ProblemInfo, hasDebugged and both controller fields are after the run what
\* they were before it, and the run makes no Analysis Client call.
C21_EmptyQueueRunChangesNothing ==
    /\ []((Returned /\ finished.outcome = "empty")
            => finished.called = {} /\ finished.wrote = {})
    /\ [][ (finished'.pc = "done" /\ finished'.outcome = "empty")
           => UNCHANGED << view, problemInfo, hasDebugged,
                           currentProcessingAbortController,
                           currentExtraProcessingAbortController, run >> ]_vars

\* A main-queue run has found its queue empty while another run, which has
\* stored its ProblemInfo and holds the main controller, is suspended.
C21_Witness ==
    /\ Returned /\ finished.outcome = "empty" /\ finished.kind = "main"
    /\ problemInfo # NULL
    /\ currentProcessingAbortController = Controller
    /\ \E rec \in Suspended : rec.pc = "generate" /\ rec.own

\* C22: no step of a run changes the controller field of the other kind:
\* neither the start of a run (processScreenshots) nor any later step of it,
\* its return included, also while a main-queue and a debug run are both
\* suspended.
C22_OtherHandleUntouched ==
    [][ /\ processScreenshots
           => IF view = "queue"
              THEN UNCHANGED currentExtraProcessingAbortController
              ELSE UNCHANGED currentProcessingAbortController
        /\ \A rec \in Suspended :
              RunStep(rec)
              => IF rec.kind = "main"
                 THEN UNCHANGED currentExtraProcessingAbortController
                 ELSE UNCHANGED currentProcessingAbortController ]_vars

\* A debug run has returned while a main-queue run is suspended and its
\* controller is in the main field.
C22_Witness ==
    /\ Returned /\ finished.kind = "extra"
    /\ currentProcessingAbortController = Controller
    /\ \E rec \in Suspended : rec.kind = "main" /\ rec.own

\* C23: whatever the sequence of trigger-process commands, also one issued
\* while a run of the same kind is suspended: whenever a run that has created
\* its controller is suspended and no cancel has been called since it
\* started, the controller field of its kind is non-null (so that a cancel
\* called then aborts a controller and sends NO_SCREENSHOTS).
C23_RunInFlightHasHandle ==
    \A rec \in Suspended :
        ~rec.interrupted => ControllerOf(rec.kind) # NoController

====
